---- MODULE Spec2Model ----
(***************************************************************************)
(* Model of the `plain` crate: checked reinterpretation of byte slices as  *)
(* values / slices of Plain types (src/src/lib.rs), the older Methods      *)
(* variant of the slice conversion (src/src/methods.rs), and the reverse   *)
(* byte views as_bytes / as_mut_bytes.                                     *)
(*                                                                         *)
(* Memory is an arena of bytes at absolute addresses.  A reference is a    *)
(* (type, pointer, element count) triple over that arena, so a conversion  *)
(* is modelled by the pointer and length arithmetic it really performs and *)
(* a view shares the arena with the buffer it was made from.               *)
(***************************************************************************)
EXTENDS Integers, Naturals, Sequences, FiniteSets, TLC

VARIABLES mem, overflow_checks, cur, origin, last, writes, wr

vars == <<mem, overflow_checks, cur, origin, last, writes, wr>>

(* ---------------------------- bounds ----------------------------------- *)

\* width of usize in bits (the real targets have 16, 32 or 64)
USIZE_BITS == 16
\* size of the arena in bytes
MemSize == 8
\* largest element count of a borrowed typed slice
MaxCount == 2
\* cap on the number of stores made through mutable views
MaxWrites == 1

(* ------------------------- Plain types --------------------------------- *)

\* u8, u16, u32 are pre-declared; [u8; 4] comes from the array impls;
\* Zst is a user-declared field-less struct (unsafe impl Plain for Zst {})
Types == {"u8", "u16", "u32", "Arr4u8", "Zst"}

size_of(T) ==
    CASE T = "u8" -> 1
      [] T = "u16" -> 2
      [] T = "u32" -> 4
      [] T = "Arr4u8" -> 4
      [] T = "Zst" -> 0

align_of(T) ==
    CASE T = "u8" -> 1
      [] T = "u16" -> 2
      [] T = "u32" -> 4
      [] T = "Arr4u8" -> 1
      [] T = "Zst" -> 1

RECURSIVE Pow2(_)
Pow2(n) == IF n = 0 THEN 1 ELSE 2 * Pow2(n - 1)

USIZE_MOD == Pow2(USIZE_BITS)
USIZE_MAX == USIZE_MOD - 1

\* first address of the arena: aligned for every type of the model
BaseAddr == 2 * align_of("u32")

Addrs == BaseAddr .. (BaseAddr + MemSize - 1)
ArenaEnd == BaseAddr + MemSize

\* the byte stored by a write through a mutable view
WriteVals == {170}

\* requested lengths for the *_len conversions: small ones and the ones
\* whose product with an element size leaves the usize range
LenInputs == {0, 1, 3, Pow2(USIZE_BITS - 1), Pow2(USIZE_BITS - 1) + 1, USIZE_MAX}

(* ------------------------- results ------------------------------------- *)

Ok(T, ptr, count, single) ==
    [tag |-> "Ok", err |-> "none", ty |-> T, ptr |-> ptr, count |-> count, single |-> single]

Err(e) ==
    [tag |-> "Err", err |-> e, ty |-> "none", ptr |-> 0, count |-> 0, single |-> FALSE]

Panic ==
    [tag |-> "Panic", err |-> "none", ty |-> "none", ptr |-> 0, count |-> 0, single |-> FALSE]

NoResult ==
    [tag |-> "none", err |-> "none", ty |-> "none", ptr |-> 0, count |-> 0, single |-> FALSE]

\* try!: the outcome of a failed check becomes the function's outcome
Fail(c) == IF c = "Panic" THEN Panic ELSE Err(c)

(* ------------------------- validation helpers -------------------------- *)

\* mutant: the comparison also rejects a buffer of exactly size_of(T) bytes
check_instance_size_le(T, bytes) ==
    IF bytes.len <= size_of(T) THEN "TooShort" ELSE "Ok"

check_instance_size(T, bytes) ==
    IF bytes.len < size_of(T) THEN "TooShort" ELSE "Ok"

\* len * size_of::<T>() on usize: with overflow checks (debug profile) an
\* overflowing product panics, without them (release profile) it wraps
check_slice_size(T, bytes, len, oc) ==
    LET product == len * size_of(T) IN
    IF product > USIZE_MAX /\ oc THEN "Panic"
    ELSE IF bytes.len < product % USIZE_MOD THEN "TooShort" ELSE "Ok"

\* mutant: the offset is taken from the buffer's length, not its address
check_alignment_of_len(T, bytes) ==
    LET align_offset == bytes.len % align_of(T) IN
    IF align_offset # 0 THEN "BadAlignment" ELSE "Ok"

check_alignment(T, bytes) ==
    LET align_offset == bytes.ptr % align_of(T) IN
    IF align_offset # 0 THEN "BadAlignment" ELSE "Ok"

(* ------------------------- views over the arena ------------------------ *)

\* a reference: &T (single) or &[T] (count elements); &[u8] is a slice of u8
View(T, ptr, count, single, m) ==
    [ty |-> T, ptr |-> ptr, count |-> count, single |-> single, mutable |-> m]

NoView == View("none", 0, 0, FALSE, FALSE)

\* mem::size_of_val(s)
size_of_val(s) ==
    IF s.single THEN size_of(s.ty) ELSE s.count * size_of(s.ty)

IsBytes(v) == v.ty = "u8" /\ ~v.single

\* the &[u8] argument of a conversion: bytes.as_ptr() and bytes.len()
AsSlice(v) == [ptr |-> v.ptr, len |-> v.count]

\* the whole extent of the reference lies in the arena
InArena(T, ptr, count) ==
    /\ ptr >= BaseAddr
    /\ ptr + count * size_of(T) <= ArenaEnd

\* the bytes a reference of n bytes at ptr reads
BytesAt(m, ptr, n) == [i \in 0 .. (n - 1) |-> m[ptr + i]]

(* ------------------------- byte views (reverse) ------------------------ *)

\* mutant: the length is the element count, not the size in bytes
as_bytes_count(s) ==
    LET bptr == s.ptr
        bsize == s.count
    IN Ok("u8", bptr, bsize, FALSE)

as_bytes(s) ==
    LET bptr == s.ptr
        bsize == size_of_val(s)
    IN Ok("u8", bptr, bsize, FALSE)

\* mutant: size_of::<S>() of the element in place of size_of_val(s)
as_mut_bytes_size_of(s) ==
    LET bptr == s.ptr
        bsize == size_of(s.ty)
    IN Ok("u8", bptr, bsize, FALSE)

as_mut_bytes(s) ==
    LET bptr == s.ptr
        bsize == size_of_val(s)
    IN Ok("u8", bptr, bsize, FALSE)

(* ------------------------- checked conversions ------------------------- *)

\* mutant: the two checks in the order of slice_from_bytes_len
from_bytes_alignment_first(T, bytes) ==
    IF check_alignment(T, bytes) # "Ok" THEN Fail(check_alignment(T, bytes))
    ELSE IF check_instance_size(T, bytes) # "Ok" THEN Fail(check_instance_size(T, bytes))
    ELSE Ok(T, bytes.ptr, 1, TRUE)

from_bytes(T, bytes) ==
    IF check_instance_size(T, bytes) # "Ok" THEN Fail(check_instance_size(T, bytes))
    ELSE IF check_alignment(T, bytes) # "Ok" THEN Fail(check_alignment(T, bytes))
    ELSE Ok(T, bytes.ptr, 1, TRUE)

slice_from_bytes_len(T, bytes, len, oc) ==
    IF check_alignment(T, bytes) # "Ok" THEN Fail(check_alignment(T, bytes))
    ELSE IF check_slice_size(T, bytes, len, oc) # "Ok"
         THEN Fail(check_slice_size(T, bytes, len, oc))
    ELSE Ok(T, bytes.ptr, len, FALSE)

\* mutant: the element count is rounded up
slice_from_bytes_round_up(T, bytes, oc) ==
    IF size_of(T) = 0 THEN Panic
    ELSE LET len == (bytes.len + size_of(T) - 1) \div size_of(T)
         IN slice_from_bytes_len(T, bytes, len, oc)

\* bytes.len() / size_of::<T>() panics (division by zero) for a zero-sized T
slice_from_bytes(T, bytes, oc) ==
    IF size_of(T) = 0 THEN Panic
    ELSE LET len == bytes.len \div size_of(T)
         IN slice_from_bytes_len(T, bytes, len, oc)

from_mut_bytes(T, bytes) ==
    IF check_instance_size(T, bytes) # "Ok" THEN Fail(check_instance_size(T, bytes))
    ELSE IF check_alignment(T, bytes) # "Ok" THEN Fail(check_alignment(T, bytes))
    ELSE Ok(T, bytes.ptr, 1, TRUE)

\* mutant: the size check is left out
slice_from_mut_bytes_len_unchecked(T, bytes, len, oc) ==
    IF check_alignment(T, bytes) # "Ok" THEN Fail(check_alignment(T, bytes))
    ELSE Ok(T, bytes.ptr, len, FALSE)

slice_from_mut_bytes_len(T, bytes, len, oc) ==
    IF check_alignment(T, bytes) # "Ok" THEN Fail(check_alignment(T, bytes))
    ELSE IF check_slice_size(T, bytes, len, oc) # "Ok"
         THEN Fail(check_slice_size(T, bytes, len, oc))
    ELSE Ok(T, bytes.ptr, len, FALSE)

slice_from_mut_bytes(T, bytes, oc) ==
    IF size_of(T) = 0 THEN Panic
    ELSE LET len == bytes.len \div size_of(T)
         IN slice_from_mut_bytes_len(T, bytes, len, oc)

\* methods.rs, impl Methods for [S]: alignment first, then the division
Methods_slice_from_bytes(T, bytes) ==
    IF check_alignment(T, bytes) # "Ok" THEN Fail(check_alignment(T, bytes))
    ELSE IF size_of(T) = 0 THEN Panic
    ELSE LET len == bytes.len \div size_of(T)
         IN Ok(T, bytes.ptr, len, FALSE)

Methods_slice_from_mut_bytes(T, bytes) ==
    IF check_alignment(T, bytes) # "Ok" THEN Fail(check_alignment(T, bytes))
    ELSE IF size_of(T) = 0 THEN Panic
    ELSE LET len == bytes.len \div size_of(T)
         IN Ok(T, bytes.ptr, len, FALSE)

(* ------------------------- state machine ------------------------------- *)

Call(op, T, ptr, n, single, L, res) ==
    [op |-> op, ty |-> T, buf |-> [ptr |-> ptr, len |-> n], single |-> single,
     L |-> L, res |-> res]

NoCall == Call("none", "none", 0, 0, FALSE, 0, NoResult)

NoWrite == [idx |-> 0, val |-> 0]

\* the value a chain of as_bytes / from_bytes conversions started from, and
\* the types the chain has been converted to so far
Origin(T, ptr, via) == [ty |-> T, ptr |-> ptr, via |-> via]

NoOrigin == Origin("none", 0, {})

\* the arena starts with a different byte at every address
InitMem == [a \in Addrs |-> 16 + (a - BaseAddr)]

Init ==
    /\ mem = InitMem
    /\ overflow_checks \in BOOLEAN
    /\ cur = NoView
    /\ origin = NoOrigin
    /\ last = NoCall
    /\ writes = 0
    /\ wr = NoWrite

\* the caller takes a byte slice &b[i..j] (or &mut b[i..j]) of the arena;
\* it holds one reference at a time (a view borrows the buffer it is made of)
Borrow(ptr, n, m) ==
    /\ cur = NoView
    /\ InArena("u8", ptr, n)
    /\ cur' = View("u8", ptr, n, FALSE, m)
    /\ origin' = NoOrigin
    /\ last' = NoCall
    /\ UNCHANGED <<mem, overflow_checks, writes, wr>>

\* the caller takes a reference to a value (or a slice of n values) of a
\* Plain type that lives in the arena; references are always aligned
BorrowValue(T, ptr, n, single, m) ==
    /\ cur = NoView
    /\ InArena(T, ptr, n)
    /\ ptr % align_of(T) = 0
    /\ single => n = 1
    /\ cur' = View(T, ptr, n, single, m)
    /\ origin' = IF single /\ ~m THEN Origin(T, ptr, {}) ELSE NoOrigin
    /\ last' = NoCall
    /\ UNCHANGED <<mem, overflow_checks, writes, wr>>

\* what the caller holds after a conversion: the view on Ok, the buffer it
\* passed on Err, nothing once the call has panicked
After(res, m) ==
    IF res.tag = "Ok" THEN View(res.ty, res.ptr, res.count, res.single, m)
    ELSE IF res.tag = "Err" THEN cur
    ELSE NoView

\* the chain of conversions that started at `origin` goes on while it only
\* passes through types of the same size and no greater alignment
KeepsOrigin(T) ==
    /\ origin # NoOrigin
    /\ size_of(T) = size_of(origin.ty)
    /\ align_of(T) <= align_of(origin.ty)

\* the caller converts first and then stores through the view it ended with
Convert(op, T, L, res, m, keep) ==
    /\ writes = 0
    /\ cur' = After(res, m)
    /\ origin' = IF keep /\ res.tag # "Panic"
                 THEN IF op = "from_bytes" /\ res.tag = "Ok"
                      THEN [origin EXCEPT !.via = @ \cup {T}]
                      ELSE origin
                 ELSE NoOrigin
    /\ last' = Call(op, T, cur.ptr, cur.count, cur.single, L, res)
    /\ UNCHANGED <<mem, overflow_checks, writes, wr>>

FromBytes(T) ==
    /\ IsBytes(cur) /\ ~cur.mutable
    /\ Convert("from_bytes", T, 0, from_bytes(T, AsSlice(cur)), FALSE, KeepsOrigin(T))

FromMutBytes(T) ==
    /\ IsBytes(cur) /\ cur.mutable
    /\ Convert("from_mut_bytes", T, 0, from_mut_bytes(T, AsSlice(cur)), TRUE, FALSE)

SliceFromBytes(T) ==
    /\ IsBytes(cur) /\ ~cur.mutable
    /\ Convert("slice_from_bytes", T, 0,
               slice_from_bytes(T, AsSlice(cur), overflow_checks), FALSE, FALSE)

SliceFromMutBytes(T) ==
    /\ IsBytes(cur) /\ cur.mutable
    /\ Convert("slice_from_mut_bytes", T, 0,
               slice_from_mut_bytes(T, AsSlice(cur), overflow_checks), TRUE, FALSE)

SliceFromBytesLen(T, L) ==
    /\ IsBytes(cur) /\ ~cur.mutable
    /\ Convert("slice_from_bytes_len", T, L,
               slice_from_bytes_len(T, AsSlice(cur), L, overflow_checks), FALSE, FALSE)

SliceFromMutBytesLen(T, L) ==
    /\ IsBytes(cur) /\ cur.mutable
    /\ Convert("slice_from_mut_bytes_len", T, L,
               slice_from_mut_bytes_len(T, AsSlice(cur), L, overflow_checks), TRUE, FALSE)

MethodsSliceFromBytes(T) ==
    /\ IsBytes(cur) /\ ~cur.mutable
    /\ Convert("Methods_slice_from_bytes", T, 0,
               Methods_slice_from_bytes(T, AsSlice(cur)), FALSE, FALSE)

MethodsSliceFromMutBytes(T) ==
    /\ IsBytes(cur) /\ cur.mutable
    /\ Convert("Methods_slice_from_mut_bytes", T, 0,
               Methods_slice_from_mut_bytes(T, AsSlice(cur)), TRUE, FALSE)

\* s.as_bytes() on the reference the caller holds ([u8] is Plain as well);
\* a slice whose extent leaves the arena is not a reference safe code can
\* have obtained without the overflow of check_slice_size, and is not
\* followed further
AsBytes ==
    /\ cur # NoView /\ ~cur.mutable
    /\ InArena(cur.ty, cur.ptr, cur.count)
    /\ Convert("as_bytes", cur.ty, cur.count, as_bytes(cur), FALSE, origin # NoOrigin)

AsMutBytes ==
    /\ cur # NoView /\ cur.mutable
    /\ InArena(cur.ty, cur.ptr, cur.count)
    /\ Convert("as_mut_bytes", cur.ty, cur.count, as_mut_bytes(cur), TRUE, FALSE)

\* a store of one byte through the mutable view the caller holds, at byte
\* offset i of the view
WriteView(i, b) ==
    /\ cur # NoView /\ cur.mutable
    /\ writes < MaxWrites
    /\ i < size_of_val(cur)
    /\ cur.ptr + i \in Addrs
    /\ mem' = [mem EXCEPT ![cur.ptr + i] = b]
    /\ writes' = writes + 1
    /\ wr' = [idx |-> i, val |-> b]
    /\ UNCHANGED <<overflow_checks, cur, origin, last>>

\* the reference the caller holds goes out of scope, and with it the buffer:
\* the next borrow is of a freshly initialised arena
Drop ==
    /\ cur # NoView
    /\ mem' = InitMem
    /\ cur' = NoView
    /\ origin' = NoOrigin
    /\ last' = NoCall
    /\ writes' = 0
    /\ wr' = NoWrite
    /\ UNCHANGED overflow_checks

Next ==
    \/ \E ptr \in BaseAddr .. ArenaEnd, n \in 0 .. MemSize, m \in BOOLEAN : Borrow(ptr, n, m)
    \/ \E T \in Types, ptr \in BaseAddr .. ArenaEnd, n \in 0 .. MaxCount,
          single \in BOOLEAN, m \in BOOLEAN : BorrowValue(T, ptr, n, single, m)
    \/ \E T \in Types : FromBytes(T)
    \/ \E T \in Types : FromMutBytes(T)
    \/ \E T \in Types : SliceFromBytes(T)
    \/ \E T \in Types : SliceFromMutBytes(T)
    \/ \E T \in Types, L \in LenInputs : SliceFromBytesLen(T, L)
    \/ \E T \in Types, L \in LenInputs : SliceFromMutBytesLen(T, L)
    \/ \E T \in Types : MethodsSliceFromBytes(T)
    \/ \E T \in Types : MethodsSliceFromMutBytes(T)
    \/ AsBytes
    \/ AsMutBytes
    \/ \E i \in 0 .. (MemSize - 1), b \in WriteVals : WriteView(i, b)
    \/ Drop

Spec == Init /\ [][Next]_vars

TypeOK ==
    /\ mem \in [Addrs -> 0 .. 255]
    /\ overflow_checks \in BOOLEAN
    /\ cur.ty \in Types \cup {"none"}
    /\ last.res.tag \in {"Ok", "Err", "Panic", "none"}
    /\ writes \in 0 .. MaxWrites

(* ------------------------- properties ---------------------------------- *)

Aligned(T, bytes) == bytes.ptr % align_of(T) = 0

\* C1: a buffer shorter than size_of(T) makes from_bytes::<T> return
\* Err(TooShort), whether or not its start address is aligned for T
C1_TooShortRegardlessOfAlignment ==
    (last.op = "from_bytes" /\ last.buf.len < size_of(last.ty))
        => last.res = Err("TooShort")

C1_Witness ==
    /\ last.op = "from_bytes"
    /\ last.buf.len < size_of(last.ty)
    /\ ~Aligned(last.ty, last.buf)
    /\ last.res = Err("TooShort")

\* C2: a buffer of at least size_of(T) bytes whose start address is not a
\* multiple of align_of(T) makes from_bytes::<T> return Err(BadAlignment)
C2_MisalignedIsBadAlignment ==
    (last.op = "from_bytes" /\ last.buf.len >= size_of(last.ty)
                            /\ ~Aligned(last.ty, last.buf))
        => last.res = Err("BadAlignment")

C2_Witness ==
    /\ last.op = "from_bytes"
    /\ last.buf.len > size_of(last.ty)
    /\ last.buf.ptr % align_of(last.ty) = 1
    /\ last.res = Err("BadAlignment")

\* C3: an aligned buffer of size_of(T) bytes or more makes from_bytes::<T>
\* return Ok with a view that starts at the buffer's first byte and covers
\* exactly its first size_of(T) bytes; the excess bytes are not in the view
C3_AlignedLongEnoughIsOk ==
    (last.op = "from_bytes" /\ last.buf.len >= size_of(last.ty)
                            /\ Aligned(last.ty, last.buf))
        => /\ last.res.tag = "Ok"
           /\ last.res.ty = last.ty
           /\ last.res.single
           /\ last.res.ptr = last.buf.ptr
           /\ cur = View(last.ty, last.buf.ptr, 1, TRUE, FALSE)
           /\ size_of_val(cur) = size_of(last.ty)
           /\ size_of_val(cur) <= last.buf.len
           /\ BytesAt(mem, cur.ptr, size_of_val(cur))
                = [i \in 0 .. (size_of(last.ty) - 1) |-> mem[last.buf.ptr + i]]

C3_Witness ==
    /\ last.op = "from_bytes"
    /\ size_of(last.ty) > 1
    /\ last.buf.len > size_of(last.ty)
    /\ last.res.tag = "Ok"
    /\ cur.ptr = last.buf.ptr

\* C4: from_bytes::<T> on the bytes of a value v of T, taken directly or
\* after a chain of as_bytes / from_bytes conversions through Plain types of
\* the same size and no greater alignment, returns Ok with a view over v's
\* own bytes (byte-for-byte equal to v)
C4_RoundTrip ==
    (last.op = "from_bytes" /\ origin # NoOrigin)
        => /\ last.res.tag = "Ok"
           /\ last.res.ptr = origin.ptr
           /\ size_of_val(cur) = size_of(origin.ty)
           /\ BytesAt(mem, cur.ptr, size_of_val(cur))
                = BytesAt(mem, origin.ptr, size_of(origin.ty))

C4_Witness ==
    /\ last.op = "from_bytes"
    /\ origin # NoOrigin
    /\ last.ty = origin.ty
    /\ size_of(origin.ty) > 1
    /\ \E U \in origin.via : U # origin.ty
    /\ last.res.tag = "Ok"

IsUnboundedSlice(op) == op \in {"slice_from_bytes", "Methods_slice_from_bytes"}

\* C5: for size_of(T) >= 1 and a buffer of k*size_of(T)+r bytes, r below
\* size_of(T), slice_from_bytes::<T> never returns TooShort; it returns
\* Err(BadAlignment) exactly when the buffer is misaligned and otherwise Ok
\* with exactly k elements over the first k*size_of(T) bytes
C5_UnboundedSlice ==
    (IsUnboundedSlice(last.op) /\ size_of(last.ty) >= 1)
        => LET k == last.buf.len \div size_of(last.ty)
               r == last.buf.len % size_of(last.ty)
           IN /\ last.res # Err("TooShort")
              /\ (last.res = Err("BadAlignment")) <=> ~Aligned(last.ty, last.buf)
              /\ Aligned(last.ty, last.buf)
                   => /\ last.res = Ok(last.ty, last.buf.ptr, k, FALSE)
                      /\ size_of_val(cur) = last.buf.len - r
                      /\ cur.ptr = last.buf.ptr

C5_Witness ==
    /\ last.op = "slice_from_bytes"
    /\ size_of(last.ty) > 1
    /\ last.buf.len % size_of(last.ty) # 0
    /\ last.res.tag = "Ok"
    /\ last.res.count >= 1

\* C6: on an aligned buffer slice_from_bytes_len::<T>(b, L) returns Ok if
\* and only if b.len() >= L * size_of(T) as a mathematical product, and
\* Err(TooShort) otherwise; on Ok the view has exactly L elements
C6_ExplicitLenIffFits ==
    (last.op = "slice_from_bytes_len" /\ Aligned(last.ty, last.buf))
        => /\ (last.res.tag = "Ok") <=> (last.buf.len >= last.L * size_of(last.ty))
           /\ last.res.tag # "Ok" => last.res = Err("TooShort")
           /\ last.res.tag = "Ok" => last.res.count = last.L

Fallible ==
    {"from_bytes", "from_mut_bytes", "slice_from_bytes", "slice_from_mut_bytes",
     "slice_from_bytes_len", "slice_from_mut_bytes_len"}

\* C7: every fallible conversion ends with Ok(view) or Err(TooShort) or
\* Err(BadAlignment) for every buffer, length and Plain type (a zero-sized
\* one included); it never panics, and an Err carries no view
C7_NeverPanics ==
    (last.op \in Fallible)
        => \/ last.res.tag = "Ok"
           \/ last.res \in {Err("TooShort"), Err("BadAlignment")}

\* C8: as_bytes and as_mut_bytes never fail; the byte view starts at the
\* value's address and has size_of(T) bytes for a single value and
\* n * size_of(T) bytes for a slice of n elements
C8_ByteViewLength ==
    (last.op \in {"as_bytes", "as_mut_bytes"})
        => /\ last.res.tag = "Ok"
           /\ last.res.ptr = last.buf.ptr
           /\ last.res.count = IF last.single THEN size_of(last.ty)
                                              ELSE last.L * size_of(last.ty)
           /\ IsBytes(cur)
           /\ cur.ptr = last.buf.ptr /\ cur.count = last.res.count
           /\ BytesAt(mem, cur.ptr, cur.count)
                = [i \in 0 .. (last.res.count - 1) |-> mem[last.buf.ptr + i]]

C8_Witness ==
    /\ last.op = "as_mut_bytes"
    /\ ~last.single
    /\ last.L = 2
    /\ size_of(last.ty) = 2
    /\ cur.count = 4

\* C9: a mutable conversion has the outcome of its read-only counterpart on
\* the same buffer, requested length and type: the same Ok / error kind and
\* on Ok the same start, element count and element type (and conversely)
C9_MutableValidatesAlike ==
    /\ last.op = "from_mut_bytes" => last.res = from_bytes(last.ty, last.buf)
    /\ last.op = "from_bytes" => last.res = from_mut_bytes(last.ty, last.buf)
    /\ last.op = "slice_from_mut_bytes"
         => last.res = slice_from_bytes(last.ty, last.buf, overflow_checks)
    /\ last.op = "slice_from_bytes"
         => last.res = slice_from_mut_bytes(last.ty, last.buf, overflow_checks)
    /\ last.op = "slice_from_mut_bytes_len"
         => last.res = slice_from_bytes_len(last.ty, last.buf, last.L, overflow_checks)
    /\ last.op = "slice_from_bytes_len"
         => last.res = slice_from_mut_bytes_len(last.ty, last.buf, last.L, overflow_checks)

C9_Witness ==
    /\ last.op = "slice_from_mut_bytes_len"
    /\ last.L = 3
    /\ last.buf.len = 4
    /\ last.res = Ok("u8", last.buf.ptr, 3, FALSE)

MutableViews ==
    {"from_mut_bytes", "slice_from_mut_bytes", "slice_from_mut_bytes_len", "as_mut_bytes"}

\* the byte length of the buffer (or value) the last call was made on
SourceLen ==
    IF last.op = "as_mut_bytes"
    THEN (IF last.single THEN size_of(last.ty) ELSE last.L * size_of(last.ty))
    ELSE last.buf.len

\* C10: after a mutable conversion succeeds, a store through the returned
\* view at byte i changes byte i of the buffer and nothing else (bytes of
\* the buffer outside the view keep their value); the conversion call
\* itself changes no byte
C10_SharedStorage ==
    [][ /\ (writes' = writes + 1 /\ last.op \in MutableViews /\ last.res.tag = "Ok")
           => /\ wr'.idx < SourceLen
              /\ mem' = [mem EXCEPT ![last.buf.ptr + wr'.idx] = wr'.val]
        /\ (last' # last /\ last'.op # "none") => mem' = mem
      ]_vars

SingleValue == {"from_bytes", "from_mut_bytes"}

ExplicitLen == {"slice_from_bytes_len", "slice_from_mut_bytes_len"}

\* the buffer of the last call is misaligned for T, too short for one T and
\* too short for the L elements asked for (L = 1 for a single value)
ViolatesBoth(L) ==
    /\ ~Aligned(last.ty, last.buf)
    /\ last.buf.len < size_of(last.ty)
    /\ last.buf.len < L * size_of(last.ty)

\* C11: on a buffer that is both too short and misaligned the single-value
\* conversions and the explicit-length slice conversions report the same
\* error kind: both apply the same precedence between TooShort and
\* BadAlignment
C11_SamePrecedence ==
    /\ (last.op \in ExplicitLen /\ ViolatesBoth(last.L))
         => /\ last.res.tag = "Err"
            /\ last.res = from_bytes(last.ty, last.buf)
            /\ last.res = from_mut_bytes(last.ty, last.buf)
    /\ (last.op \in SingleValue /\ ViolatesBoth(1))
         => /\ last.res.tag = "Err"
            /\ last.res = slice_from_bytes_len(last.ty, last.buf, 1, overflow_checks)
            /\ last.res = slice_from_mut_bytes_len(last.ty, last.buf, 1, overflow_checks)

\* the byte extent of the view an Ok result describes, as a mathematical
\* product
ResultExtent(res) ==
    IF res.single THEN size_of(res.ty) ELSE res.count * size_of(res.ty)

\* C13: whenever one of the six conversions returns Ok, the view starts at
\* the buffer's first byte, that address is a multiple of align_of(T), and
\* the view's byte extent is at most the buffer's length, for every
\* requested length in the usize range
C13_OkViewWithinBuffer ==
    (last.op \in Fallible /\ last.res.tag = "Ok")
        => /\ last.res.ptr = last.buf.ptr
           /\ last.res.ptr % align_of(last.res.ty) = 0
           /\ ResultExtent(last.res) <= last.buf.len

====
